---- MODULE Spec2Model ----
(***************************************************************************)
(* PDF compressor of aio-tools: compressPDF (src/lib/tools/                *)
(* pdf-compressor.ts) and the page that drives it (src/app/tools/          *)
(* pdf-compressor/page.tsx).                                               *)
(*                                                                         *)
(* compressPDF is an async function.  Each action below is one stretch of  *)
(* its code between two suspension points (await), or one event handler of *)
(* the page.  A JPEG quality q (a float in [0.1, 1.0] in the code) is the  *)
(* integer q * QScale; every quality the search computes is a multiple of  *)
(* 1 / QScale, so midpoints are exact.                                     *)
(***************************************************************************)
EXTENDS Integers, Sequences, FiniteSets, TLC

\* ------------------------------------------------------------- bounds
\* Largest page count of a selectable document.
MaxPages == 2

\* ---------------------------------------------------- program constants
QScale == 1024 * 100
MB == 1024 * 1024
\* let minQuality = 0.1 / "use minimum quality"
FloorQuality == QScale \div 10
\* let maxQuality = 1.0 / "test 100% quality"
CeilQuality == QScale
\* A gap of 0.001 in place of 0.005.
RefineGapFine == QScale \div 1000
\* the 0.005 of `bestQuality < maxQuality - 0.005`
RefineGap == (5 * QScale) \div 1000
\* One bisection pass too many.
maxAttemptsPlusOne == 6 + 1
maxAttempts == 6
maxRefinementPasses == 4
\* an optional field that is absent (attempt?: number, finalQuality?: number,
\* targetSizeMB?: number)
Undefined == 0
DefaultQuality == QScale \div 2
DefaultTargetSize == 50
DefaultDpiIndex == 2
DPI_VALUES == <<72, 96, 144, 150, 200, 300>>

\* --------------------------------------------------------------- values
\* File | null.  A File is known by its size, by the number of pages PDF.js
\* finds in it, and by the class of sizes its pages assemble to:
\*   "any"      any size at any quality (the same size for the same quality)
\*   "monotone" any sizes that do not decrease as the quality grows
\*   "step"     size MB below the quality `knee`, MB + 1 from it on
NoFile == [pages |-> 0, size |-> 0, kind |-> "none", knee |-> 0]
\* Blob | null.  A blob is known by the quality it was assembled at and by
\* its size in bytes.
NoBlob == [quality |-> 0, size |-> 0]
\* CompressionResult | null
NoResult == [blob |-> NoBlob, originalSize |-> 0, compressedSize |-> 0,
             pageCount |-> 0, finalQuality |-> Undefined]
\* CompressionProgress | null
NoProgress == [stage |-> "none", currentPage |-> 0, totalPages |-> 0,
               attempt |-> Undefined, site |-> "none"]
\* string | null
NoError == ""

\* The sizes a blob can have: at or above a target of 1 MB; below, at or
\* above a target of 2 MB.
BlobSizes == {MB, 2 * MB, 2 * MB + 1}
\* The value a rejected promise carries; no rejection.
NoFailure == [site |-> "", isError |-> FALSE]

VARIABLES
    \* ---- PDFCompressorPage (useState)
    file, mode, settings, targetSize, dpiIndex, state, progress, result, error,
    \* ---- one invocation of compressPDF
    pc,                 \* where the invocation is suspended
    args,               \* its arguments: [file, settings]
    totalPages, pageNum,\* renderPagesToCanvases: pdf.numPages, loop variable
    inFlight,           \* the calls of renderPagesToCanvases and of
                        \* generatePDFFromCanvases made and not yet settled
    minQuality, maxQuality, bestBlob, bestQuality, finalQuality, finalBlob,
    attempt, testQuality, refinementPasses,
    retval,             \* the value the promise resolved with
    \* ---- history of the invocation (not program state)
    renders,            \* the pages given to page.render, in order
    calls,              \* the calls of generatePDFFromCanvases, in order:
                        \* [site, blob], blob = NoBlob when the call rejected
    events,             \* the onProgress calls, in order
    failure             \* what the invocation threw: [site, isError]

pageVars == <<file, mode, settings, targetSize, dpiIndex, state, progress, result, error>>
searchVars == <<minQuality, maxQuality, bestBlob, bestQuality, finalQuality, finalBlob,
                attempt, testQuality, refinementPasses>>
renderVars == <<totalPages, pageNum, renders>>
histVars == <<calls, events, failure>>
vars == <<pageVars, pc, args, inFlight, renderVars, searchVars, retval, histVars>>

\* ------------------------------------------------------------ the page
\* CompressionSettings of the page state: DEFAULT_SETTINGS
DEFAULT_SETTINGS == [quality |-> DefaultQuality, dpi |-> 144, targetSizeMB |-> Undefined]

\* The position of a compressPDF invocation: "idle" when none is running.
Idle == pc = "idle"

InitInvocation ==
    /\ pc = "idle"
    /\ args = [file |-> NoFile, settings |-> DEFAULT_SETTINGS]
    /\ totalPages = 0 /\ pageNum = 0 /\ renders = <<>>
    /\ inFlight = 0
    /\ minQuality = 0 /\ maxQuality = 0
    /\ bestBlob = NoBlob /\ bestQuality = 0
    /\ finalQuality = 0 /\ finalBlob = NoBlob
    /\ attempt = 0 /\ testQuality = 0 /\ refinementPasses = 0
    /\ retval = NoResult
    /\ calls = <<>> /\ events = <<>> /\ failure = NoFailure

Init ==
    /\ file = NoFile
    /\ mode = "quality"
    /\ settings = DEFAULT_SETTINGS
    /\ targetSize = DefaultTargetSize
    /\ dpiIndex = DefaultDpiIndex
    /\ state = "idle"
    /\ progress = NoProgress
    /\ result = NoResult
    /\ error = NoError
    /\ InitInvocation

\* ------------------------------------------------------- progress events
\* One onProgress call.  `site` is not a field of CompressionProgress: it
\* names the statement of compressPDF that made the call.
Ev(stage, cur, tot, att, site) ==
    [stage |-> stage, currentPage |-> cur, totalPages |-> tot,
     attempt |-> att, site |-> site]

\* onProgress?.(e) with onProgress = setProgress
Emit(e) ==
    /\ events' = Append(events, e)
    /\ progress' = e

\* ---------------------------------------------------- handleTargetSizeInput
\* The text of the number input, one character per element.
Digits == {"0", "1", "2", "3", "4", "5", "6", "7", "8", "9"}
DigitVal(c) ==
    CASE c = "0" -> 0 [] c = "1" -> 1 [] c = "2" -> 2 [] c = "3" -> 3
      [] c = "4" -> 4 [] c = "5" -> 5 [] c = "6" -> 6 [] c = "7" -> 7
      [] c = "8" -> 8 [] c = "9" -> 9

\* The value of the longest prefix of digits of s, read onto acc.
RECURSIVE DigitPrefix(_, _)
DigitPrefix(s, acc) ==
    IF s = <<>> \/ Head(s) \notin Digits THEN acc
    ELSE DigitPrefix(Tail(s), acc * 10 + DigitVal(Head(s)))

\* parseInt(s): an optional sign and the digits that follow it; NaN when no
\* digit follows.
ParseInt(s) ==
    LET neg == s # <<>> /\ Head(s) = "-"
        body == IF s # <<>> /\ Head(s) \in {"-", "+"} THEN Tail(s) ELSE s
    IN IF body = <<>> \/ Head(body) \notin Digits
       THEN [nan |-> TRUE, val |-> 0]
       ELSE [nan |-> FALSE,
             val |-> IF neg THEN 0 - DigitPrefix(body, 0) ELSE DigitPrefix(body, 0)]

Min(a, b) == IF a < b THEN a ELSE b
Max(a, b) == IF a > b THEN a ELSE b

\* The clamp with its upper end only and `|| 1` for NaN only.
ClampTargetSizeUpperOnly(s) ==
    LET p == ParseInt(s)
        value == IF p.nan THEN 1 ELSE p.val
    IN Min(500, value)

\* parseInt(e.target.value) || 1, clamped to 1..500
ClampTargetSize(s) ==
    LET p == ParseInt(s)
        value == IF p.nan \/ p.val = 0 THEN 1 ELSE p.val
    IN Max(1, Min(500, value))

\* What the user types into the target size input.
TargetInputs == {<<>>, <<"a">>, <<"0">>, <<"-", "5">>, <<"2">>, <<"1", ".", "5">>,
                 <<"6", "0", "0">>}

\* Positions of the quality slider (min 10, max 100, step 5) the user picks.
SliderValues == {75}
\* Positions of the DPI slider the user picks.
DpiIndexes == {5}

\* The documents the user can drop on the page.
PageFiles ==
    {[pages |-> n, size |-> 3 * MB, kind |-> "step", knee |-> k] :
        n \in 1..MaxPages, k \in {FloorQuality, DefaultQuality + 1, CeilQuality + 1}}

\* --------------------------------------------------------- page handlers
Disabled == state = "processing"

handleFileSelect(selectedFile) ==
    /\ ~Disabled
    /\ file = NoFile
    /\ file' = selectedFile
    /\ result' = NoResult
    /\ error' = NoError
    /\ state' = "idle"
    /\ UNCHANGED <<mode, settings, targetSize, dpiIndex, progress>>
    /\ UNCHANGED <<pc, args, inFlight, renderVars, searchVars, retval, histVars>>

handleClear ==
    /\ ~Disabled
    /\ file # NoFile \/ state = "error"
    /\ file' = NoFile
    /\ result' = NoResult
    /\ error' = NoError
    /\ state' = "idle"
    /\ progress' = NoProgress
    /\ UNCHANGED <<mode, settings, targetSize, dpiIndex>>
    /\ UNCHANGED <<pc, args, inFlight, renderVars, searchVars, retval, histVars>>

\* setMode with the mode buttons left enabled while processing.
setModeWhileProcessing(m) ==
    /\ mode' = m
    /\ UNCHANGED <<file, settings, targetSize, dpiIndex, state, progress, result, error>>
    /\ UNCHANGED <<pc, args, inFlight, renderVars, searchVars, retval, histVars>>

setMode(m) ==
    /\ ~Disabled
    /\ mode' = m
    /\ UNCHANGED <<file, settings, targetSize, dpiIndex, state, progress, result, error>>
    /\ UNCHANGED <<pc, args, inFlight, renderVars, searchVars, retval, histVars>>

handleTargetSizeInput(s) ==
    /\ ~Disabled
    /\ mode = "target"
    /\ targetSize' = ClampTargetSize(s)
    /\ UNCHANGED <<file, mode, settings, dpiIndex, state, progress, result, error>>
    /\ UNCHANGED <<pc, args, inFlight, renderVars, searchVars, retval, histVars>>

handleQualityChange(value) ==
    /\ ~Disabled
    /\ mode = "quality"
    /\ settings' = [settings EXCEPT !.quality = (value * QScale) \div 100]
    /\ UNCHANGED <<file, mode, targetSize, dpiIndex, state, progress, result, error>>
    /\ UNCHANGED <<pc, args, inFlight, renderVars, searchVars, retval, histVars>>

handleDpiChange(index) ==
    /\ ~Disabled
    /\ dpiIndex' = index
    /\ settings' = [settings EXCEPT !.dpi = DPI_VALUES[index + 1]]
    /\ UNCHANGED <<file, mode, targetSize, state, progress, result, error>>
    /\ UNCHANGED <<pc, args, inFlight, renderVars, searchVars, retval, histVars>>

\* compressionSettings of handleCompress
CompressionSettingsOf(s, di, m, ts) ==
    [s EXCEPT !.dpi = DPI_VALUES[di + 1],
              !.targetSizeMB = IF m = "target" THEN ts ELSE Undefined]

\* The first onProgress call of renderPagesToCanvases.
LoadingLibraries == Ev("loading", 0, 0, Undefined, "load")

\* handleCompress without its setError(null).
handleCompressKeepsError ==
    /\ ~Disabled
    /\ file # NoFile
    /\ state' = "processing"
    /\ UNCHANGED error
    /\ result' = NoResult
    /\ args' = [file |-> file,
                settings |-> CompressionSettingsOf(settings, dpiIndex, mode, targetSize)]
    /\ pc' = "import"
    /\ totalPages' = 0 /\ pageNum' = 0 /\ renders' = <<>>
    /\ inFlight' = inFlight + 1
    /\ minQuality' = 0 /\ maxQuality' = 0
    /\ bestBlob' = NoBlob /\ bestQuality' = 0
    /\ finalQuality' = 0 /\ finalBlob' = NoBlob
    /\ attempt' = 0 /\ testQuality' = 0 /\ refinementPasses' = 0
    /\ retval' = NoResult
    /\ calls' = <<>> /\ failure' = NoFailure
    /\ events' = <<LoadingLibraries>>
    /\ progress' = LoadingLibraries
    /\ UNCHANGED <<file, mode, settings, targetSize, dpiIndex>>

\* handleCompress up to its await: the state updates, the call of compressPDF
\* and compressPDF up to `await import("pdfjs-dist")`.
handleCompress ==
    /\ ~Disabled
    /\ file # NoFile
    /\ state' = "processing"
    /\ error' = NoError
    /\ result' = NoResult
    /\ args' = [file |-> file,
                settings |-> CompressionSettingsOf(settings, dpiIndex, mode, targetSize)]
    /\ pc' = "import"
    /\ totalPages' = 0 /\ pageNum' = 0 /\ renders' = <<>>
    /\ inFlight' = inFlight + 1
    /\ minQuality' = 0 /\ maxQuality' = 0
    /\ bestBlob' = NoBlob /\ bestQuality' = 0
    /\ finalQuality' = 0 /\ finalBlob' = NoBlob
    /\ attempt' = 0 /\ testQuality' = 0 /\ refinementPasses' = 0
    /\ retval' = NoResult
    /\ calls' = <<>> /\ failure' = NoFailure
    /\ events' = <<LoadingLibraries>>
    /\ progress' = LoadingLibraries
    /\ UNCHANGED <<file, mode, settings, targetSize, dpiIndex>>

\* ------------------------------------------------ renderPagesToCanvases
\* Every step of an invocation leaves the page's inputs alone.
InvocationStep == UNCHANGED <<file, mode, settings, targetSize, dpiIndex>>

\* A rejected promise or a throw inside compressPDF: nothing of compressPDF
\* runs after it.
Throw(site) ==
    /\ pc' = "thrown"
    /\ \E isError \in BOOLEAN : failure' = [site |-> site, isError |-> isError]

\* `await import("pdfjs-dist")` resolved: the second loading event, then
\* file.arrayBuffer() and getDocument.
LoadPDF ==
    /\ pc = "import"
    /\ Emit(Ev("loading", 0, 0, Undefined, "load"))
    /\ pc' = "getDocument"
    /\ UNCHANGED <<state, result, error, args, renderVars, searchVars, retval,
                   calls, failure>>
    /\ UNCHANGED inFlight
    /\ InvocationStep

\* RenderingEvent that counts the pages left instead of the pages reached.
RenderingEventCountdown(n, total) ==
    Ev("rendering", total - n + 1, total, Undefined, "render")

\* The onProgress call at the head of the page loop.
RenderingEvent(n, total) == Ev("rendering", n, total, Undefined, "render")

\* getDocument resolved: pdf.numPages is read and the page loop starts.
OpenDocument ==
    /\ pc = "getDocument"
    /\ totalPages' = args.file.pages
    /\ pageNum' = 1
    /\ Emit(RenderingEvent(1, args.file.pages))
    /\ pc' = "renderPage"
    /\ UNCHANGED <<state, result, error, args, renders, searchVars, retval, calls,
                   failure>>
    /\ UNCHANGED inFlight
    /\ InvocationStep

\* One pass of the page loop: getPage and render resolved, the canvas is
\* pushed; the loop goes on to the next page or returns the pages.
RenderPage ==
    /\ pc = "renderPage"
    /\ renders' = Append(renders, pageNum)
    /\ pageNum' = pageNum + 1
    /\ IF pageNum + 1 <= totalPages
       THEN /\ Emit(RenderingEvent(pageNum + 1, totalPages))
            /\ pc' = "renderPage"
            /\ UNCHANGED inFlight
       ELSE /\ pc' = "rendered"
            /\ inFlight' = inFlight - 1
            /\ UNCHANGED <<events, progress>>
    /\ UNCHANGED <<state, result, error, args, totalPages, searchVars, retval,
                   calls, failure>>
    /\ InvocationStep

\* The import, the read of the file, getDocument, getPage or render rejects.
RasterizerFails ==
    /\ pc \in {"import", "getDocument", "renderPage"}
    /\ Throw(pc)
    /\ UNCHANGED <<state, progress, result, error, args, renderVars, searchVars,
                   retval, calls, events>>
    /\ inFlight' = inFlight - 1
    /\ InvocationStep

\* ----------------------------------------------- generatePDFFromCanvases
\* The blobs already assembled in this invocation.
Assembled == {calls[i].blob : i \in 1..Len(calls)} \ {NoBlob}

\* generatePDFFromCanvases returned `blob` to the statement at `site`.
Called(site, blob) == calls' = Append(calls, [site |-> site, blob |-> blob])

\* The sizes generatePDFFromCanvases(pages, q) can return for the document
\* of this invocation.
AssembleSizes(q) ==
    LET f == args.file
        same == {c.size : c \in {b \in Assembled : b.quality = q}}
    IN CASE f.kind = "step" -> {IF q < f.knee THEN MB ELSE MB + 1}
         [] f.kind = "monotone" ->
              {s \in BlobSizes :
                  \A c \in Assembled :
                      /\ c.quality <= q => c.size <= s
                      /\ c.quality >= q => s <= c.size}
         [] OTHER -> IF same # {} THEN same ELSE BlobSizes

\* The blobs generatePDFFromCanvases(pages, q) can return.
Assemble(q) == {[quality |-> q, size |-> s] : s \in AssembleSizes(q)}

\* AssemblerFails inside a try/catch that goes on with what the search has.
AssemblerFailsSwallowed ==
    /\ pc \in {"probe", "bisect", "refine", "fallback", "direct"}
    /\ Called(pc, NoBlob)
    /\ \E isError \in BOOLEAN : failure' = [site |-> pc, isError |-> isError]
    /\ pc' = "selected"
    /\ UNCHANGED <<state, progress, result, error, args, renderVars, searchVars,
                   retval, events>>
    /\ inFlight' = inFlight - 1
    /\ InvocationStep

\* AssemblerFails with the "complete" call in a finally block: it is made
\* on the way out of a failed invocation too.
AssemblerFailsAnnouncesComplete ==
    /\ pc \in {"probe", "bisect", "refine", "fallback", "direct"}
    /\ Called(pc, NoBlob)
    /\ Throw(pc)
    /\ Emit(Ev("complete", totalPages, totalPages, Undefined, "complete"))
    /\ UNCHANGED <<state, result, error, args, renderVars, searchVars, retval>>
    /\ inFlight' = inFlight - 1
    /\ InvocationStep

\* A call of generatePDFFromCanvases rejects (jsPDF or toDataURL throws).
AssemblerFails ==
    /\ pc \in {"probe", "bisect", "refine", "fallback", "direct"}
    /\ Called(pc, NoBlob)
    /\ Throw(pc)
    /\ UNCHANGED <<state, progress, result, error, args, renderVars, searchVars,
                   retval, events>>
    /\ inFlight' = inFlight - 1
    /\ InvocationStep

\* ------------------------------------------------ compressPDF, target mode
\* settings.targetSizeMB * 1024 * 1024
targetBytes == args.settings.targetSizeMB * MB

\* Fits with `<` for `<=`: a blob of exactly targetBytes is rejected.
FitsStrict(blob) == blob.size < targetBytes

\* Fits with the budget one byte too large.
FitsLoose(blob) == blob.size <= targetBytes + 1

\* testBlob.size <= targetBytes
Fits(blob) == blob.size <= targetBytes

\* The midpoint without the halving.
MidpointSum(lo, hi) == lo + hi

\* A test point a quarter of the way up the bracket.
MidpointQuarter(lo, hi) == lo + (hi - lo) \div 4

\* The lower end of the bracket in place of its midpoint.
MidpointFloor(lo, hi) == lo

\* (minQuality + maxQuality) / 2
Midpoint(lo, hi) == (lo + hi) \div 2

\* if (settings.targetSizeMB): the search variables are set, the search is
\* announced (attempt 0) and the function yields.
BeginSearch ==
    /\ pc = "rendered"
    /\ args.settings.targetSizeMB # Undefined
    /\ finalQuality' = args.settings.quality
    /\ minQuality' = FloorQuality
    /\ maxQuality' = CeilQuality
    /\ bestBlob' = NoBlob
    /\ bestQuality' = FloorQuality
    /\ Emit(Ev("optimizing", totalPages, totalPages, 0, "announce"))
    /\ pc' = "searchYield"
    /\ UNCHANGED <<state, result, error, args, renderVars, finalBlob, attempt,
                   testQuality, refinementPasses, retval, calls, failure>>
    /\ UNCHANGED inFlight
    /\ InvocationStep

\* ProbeStart that makes the quality-1.0 call and the quality-0.1 call
\* together and awaits only the first.
ProbeStartWithFloor ==
    /\ pc = "searchYield"
    /\ Emit(Ev("optimizing", totalPages, totalPages, 1, "probe"))
    /\ pc' = "probe"
    /\ UNCHANGED <<state, result, error, args, renderVars, searchVars, retval,
                   calls, failure>>
    /\ inFlight' = inFlight + 2
    /\ InvocationStep

\* After the yield: "Testing maximum quality..." (attempt 1) and the call
\* generatePDFFromCanvases(pages, 1.0).
ProbeStart ==
    /\ pc = "searchYield"
    /\ Emit(Ev("optimizing", totalPages, totalPages, 1, "probe"))
    /\ pc' = "probe"
    /\ UNCHANGED <<state, result, error, args, renderVars, searchVars, retval,
                   calls, failure>>
    /\ inFlight' = inFlight + 1
    /\ InvocationStep

\* The quality-1.0 blob arrives: it is taken if it fits, else the bisection
\* loop is entered with attempt = 1.
Probe ==
    /\ pc = "probe"
    /\ \E maxQualityBlob \in Assemble(CeilQuality) :
          /\ Called(pc, maxQualityBlob)
          /\ IF Fits(maxQualityBlob)
             THEN /\ bestBlob' = maxQualityBlob
                  /\ bestQuality' = CeilQuality
                  /\ finalQuality' = CeilQuality
                  /\ pc' = "selected"
                  /\ UNCHANGED attempt
             ELSE /\ attempt' = 1
                  /\ pc' = "bisectLoop"
                  /\ UNCHANGED <<bestBlob, bestQuality, finalQuality>>
    /\ UNCHANGED <<state, progress, result, error, args, renderVars, minQuality,
                   maxQuality, finalBlob, testQuality, refinementPasses, retval,
                   events, failure>>
    /\ inFlight' = inFlight - 1
    /\ InvocationStep

\* Head of a bisection pass: the midpoint is computed and announced, then
\* the function yields (await of a zero timeout).
BisectAnnounce ==
    /\ pc = "bisectLoop"
    /\ testQuality' = Midpoint(minQuality, maxQuality)
    /\ Emit(Ev("optimizing", totalPages, totalPages, attempt, "bisect"))
    /\ pc' = "bisectYield"
    /\ UNCHANGED <<state, result, error, args, renderVars, minQuality, maxQuality,
                   bestBlob, bestQuality, finalQuality, finalBlob, attempt,
                   refinementPasses, retval, calls, failure>>
    /\ UNCHANGED inFlight
    /\ InvocationStep

\* BisectStart that renders the pages again before it assembles them.
BisectStartRendersAgain ==
    /\ pc = "bisectYield"
    /\ pc' = "bisect"
    /\ inFlight' = inFlight + 1
    /\ renders' = renders \o [i \in 1..totalPages |-> i]
    /\ UNCHANGED <<state, progress, result, error, args, totalPages, pageNum,
                   searchVars, retval, histVars>>
    /\ InvocationStep

\* The timeout of a bisection pass fired: the call
\* generatePDFFromCanvases(pages, testQuality) is made.
BisectStart ==
    /\ pc = "bisectYield"
    /\ pc' = "bisect"
    /\ inFlight' = inFlight + 1
    /\ UNCHANGED <<state, progress, result, error, args, renderVars, searchVars,
                   retval, histVars>>
    /\ InvocationStep

\* Bisect without `minQuality = testQuality`: a fit leaves the bracket as it
\* was.
BisectKeepsFloor ==
    /\ pc = "bisect"
    /\ \E testBlob \in Assemble(testQuality) :
          /\ Called(pc, testBlob)
          /\ IF Fits(testBlob)
             THEN /\ bestBlob' = testBlob
                  /\ bestQuality' = testQuality
                  /\ UNCHANGED <<minQuality, maxQuality>>
             ELSE /\ maxQuality' = testQuality
                  /\ UNCHANGED <<bestBlob, bestQuality, minQuality>>
    /\ attempt' = attempt + 1
    /\ refinementPasses' = IF attempt + 1 <= maxAttempts THEN refinementPasses ELSE 0
    /\ pc' = IF attempt + 1 <= maxAttempts THEN "bisectLoop" ELSE "refineLoop"
    /\ UNCHANGED <<state, progress, result, error, args, renderVars, finalQuality,
                   finalBlob, testQuality, retval, events, failure>>
    /\ inFlight' = inFlight - 1
    /\ InvocationStep

\* Bisect with the two branches narrowing the wrong way: a fit lowers
\* maxQuality, a miss raises minQuality.
BisectInverted ==
    /\ pc = "bisect"
    /\ \E testBlob \in Assemble(testQuality) :
          /\ Called(pc, testBlob)
          /\ IF Fits(testBlob)
             THEN /\ bestBlob' = testBlob
                  /\ bestQuality' = testQuality
                  /\ maxQuality' = testQuality
                  /\ UNCHANGED minQuality
             ELSE /\ minQuality' = testQuality
                  /\ UNCHANGED <<bestBlob, bestQuality, maxQuality>>
    /\ attempt' = attempt + 1
    /\ refinementPasses' = IF attempt + 1 <= maxAttempts THEN refinementPasses ELSE 0
    /\ pc' = IF attempt + 1 <= maxAttempts THEN "bisectLoop" ELSE "refineLoop"
    /\ UNCHANGED <<state, progress, result, error, args, renderVars, finalQuality,
                   finalBlob, testQuality, retval, events, failure>>
    /\ inFlight' = inFlight - 1
    /\ InvocationStep

\* Bisect without `maxQuality = testQuality`: a miss leaves the bracket as
\* it was.
BisectKeepsCeiling ==
    /\ pc = "bisect"
    /\ \E testBlob \in Assemble(testQuality) :
          /\ Called(pc, testBlob)
          /\ IF Fits(testBlob)
             THEN /\ bestBlob' = testBlob
                  /\ bestQuality' = testQuality
                  /\ minQuality' = testQuality
             ELSE UNCHANGED <<bestBlob, bestQuality, minQuality>>
    /\ UNCHANGED maxQuality
    /\ attempt' = attempt + 1
    /\ refinementPasses' = IF attempt + 1 <= maxAttempts THEN refinementPasses ELSE 0
    /\ pc' = IF attempt + 1 <= maxAttempts THEN "bisectLoop" ELSE "refineLoop"
    /\ UNCHANGED <<state, progress, result, error, args, renderVars, finalQuality,
                   finalBlob, testQuality, retval, events, failure>>
    /\ inFlight' = inFlight - 1
    /\ InvocationStep

\* Rest of a bisection pass: the blob at testQuality is assembled and the
\* bracket is narrowed; attempt++ and the loop test.
Bisect ==
    /\ pc = "bisect"
    /\ \E testBlob \in Assemble(testQuality) :
          /\ Called(pc, testBlob)
          /\ IF Fits(testBlob)
             THEN /\ bestBlob' = testBlob
                  /\ bestQuality' = testQuality
                  /\ minQuality' = testQuality
                  /\ UNCHANGED maxQuality
             ELSE /\ maxQuality' = testQuality
                  /\ UNCHANGED <<bestBlob, bestQuality, minQuality>>
    /\ attempt' = attempt + 1
    /\ refinementPasses' = IF attempt + 1 <= maxAttempts THEN refinementPasses ELSE 0
    /\ pc' = IF attempt + 1 <= maxAttempts THEN "bisectLoop" ELSE "refineLoop"
    /\ UNCHANGED <<state, progress, result, error, args, renderVars, finalQuality,
                   finalBlob, testQuality, retval, events, failure>>
    /\ inFlight' = inFlight - 1
    /\ InvocationStep

\* RefineCondition without the test of the gap.
RefineConditionNoGap ==
    /\ bestBlob # NoBlob
    /\ refinementPasses < maxRefinementPasses

\* bestBlob && bestQuality < maxQuality - 0.005 && refinementPasses < maxRefinementPasses
RefineCondition ==
    /\ bestBlob # NoBlob
    /\ bestQuality < maxQuality - RefineGap
    /\ refinementPasses < maxRefinementPasses

\* Head of a refinement pass.
RefineAnnounce ==
    /\ pc = "refineLoop"
    /\ RefineCondition
    /\ refinementPasses' = refinementPasses + 1
    /\ testQuality' = Midpoint(bestQuality, maxQuality)
    /\ Emit(Ev("optimizing", totalPages, totalPages, Undefined, "refine"))
    /\ pc' = "refineYield"
    /\ UNCHANGED <<state, result, error, args, renderVars, minQuality, maxQuality,
                   bestBlob, bestQuality, finalQuality, finalBlob, attempt, retval,
                   calls, failure>>
    /\ UNCHANGED inFlight
    /\ InvocationStep

\* The timeout of a refinement pass fired: the call
\* generatePDFFromCanvases(pages, refinedQuality) is made.
RefineStart ==
    /\ pc = "refineYield"
    /\ pc' = "refine"
    /\ inFlight' = inFlight + 1
    /\ UNCHANGED <<state, progress, result, error, args, renderVars, searchVars,
                   retval, histVars>>
    /\ InvocationStep

\* Refine without the size test: every refined blob becomes the candidate.
RefineAcceptsAll ==
    /\ pc = "refine"
    /\ \E refinedBlob \in Assemble(testQuality) :
          /\ Called(pc, refinedBlob)
          /\ bestBlob' = refinedBlob
          /\ bestQuality' = testQuality
          /\ UNCHANGED maxQuality
    /\ pc' = "refineLoop"
    /\ UNCHANGED <<state, progress, result, error, args, renderVars, minQuality,
                   finalQuality, finalBlob, attempt, testQuality, refinementPasses,
                   retval, events, failure>>
    /\ inFlight' = inFlight - 1
    /\ InvocationStep

\* Refine placed inside the bisection loop: after it the loop head runs
\* again.
RefineInsideBisection ==
    /\ pc = "refine"
    /\ \E refinedBlob \in Assemble(testQuality) :
          /\ Called(pc, refinedBlob)
          /\ IF Fits(refinedBlob)
             THEN /\ bestBlob' = refinedBlob
                  /\ bestQuality' = testQuality
                  /\ UNCHANGED maxQuality
             ELSE /\ maxQuality' = testQuality
                  /\ UNCHANGED <<bestBlob, bestQuality>>
    /\ pc' = "bisectLoop"
    /\ UNCHANGED <<state, progress, result, error, args, renderVars, minQuality,
                   finalQuality, finalBlob, attempt, testQuality, refinementPasses,
                   retval, events, failure>>
    /\ inFlight' = inFlight - 1
    /\ InvocationStep

\* Rest of a refinement pass: the blob at refinedQuality is assembled.
Refine ==
    /\ pc = "refine"
    /\ \E refinedBlob \in Assemble(testQuality) :
          /\ Called(pc, refinedBlob)
          /\ IF Fits(refinedBlob)
             THEN /\ bestBlob' = refinedBlob
                  /\ bestQuality' = testQuality
                  /\ UNCHANGED maxQuality
             ELSE /\ maxQuality' = testQuality
                  /\ UNCHANGED <<bestBlob, bestQuality>>
    /\ pc' = "refineLoop"
    /\ UNCHANGED <<state, progress, result, error, args, renderVars, minQuality,
                   finalQuality, finalBlob, attempt, testQuality, refinementPasses,
                   retval, events, failure>>
    /\ inFlight' = inFlight - 1
    /\ InvocationStep

\* RefineExit without `finalQuality = bestQuality`.
RefineExitKeepsQuality ==
    /\ pc = "refineLoop"
    /\ ~RefineCondition
    /\ pc' = "selected"
    /\ UNCHANGED <<state, progress, result, error, args, renderVars, searchVars,
                   retval, histVars>>
    /\ UNCHANGED inFlight
    /\ InvocationStep

\* The refinement loop ends: finalQuality = bestQuality.
RefineExit ==
    /\ pc = "refineLoop"
    /\ ~RefineCondition
    /\ finalQuality' = bestQuality
    /\ pc' = "selected"
    /\ UNCHANGED <<state, progress, result, error, args, renderVars, minQuality,
                   maxQuality, bestBlob, bestQuality, finalBlob, attempt, testQuality,
                   refinementPasses, retval, histVars>>
    /\ UNCHANGED inFlight
    /\ InvocationStep

\* FallbackStart without its `if (!bestBlob)`.
FallbackStartUnguarded ==
    /\ pc = "selected"
    /\ Emit(Ev("optimizing", totalPages, totalPages, Undefined, "fallback"))
    /\ pc' = "fallback"
    /\ UNCHANGED <<state, result, error, args, renderVars, searchVars, retval,
                   calls, failure>>
    /\ inFlight' = inFlight + 1
    /\ InvocationStep

\* FallbackStart without its onProgress call.
FallbackStartSilent ==
    /\ pc = "selected"
    /\ bestBlob = NoBlob
    /\ pc' = "fallback"
    /\ UNCHANGED <<state, progress, result, error, args, renderVars, searchVars,
                   retval, histVars>>
    /\ inFlight' = inFlight + 1
    /\ InvocationStep

\* if (!bestBlob): "Target too small" is announced and
\* generatePDFFromCanvases(pages, 0.1) is called.
FallbackStart ==
    /\ pc = "selected"
    /\ bestBlob = NoBlob
    /\ Emit(Ev("optimizing", totalPages, totalPages, Undefined, "fallback"))
    /\ pc' = "fallback"
    /\ UNCHANGED <<state, result, error, args, renderVars, searchVars, retval,
                   calls, failure>>
    /\ inFlight' = inFlight + 1
    /\ InvocationStep

\* Fallback assembling at maxQuality, the wrong end of the bracket.
FallbackAtMaxQuality ==
    /\ pc = "fallback"
    /\ \E blob \in Assemble(maxQuality) :
          /\ Called(pc, blob)
          /\ bestBlob' = blob
          /\ finalBlob' = blob
    /\ finalQuality' = FloorQuality
    /\ pc' = "finish"
    /\ UNCHANGED <<state, progress, result, error, args, renderVars, minQuality,
                   maxQuality, bestQuality, attempt, testQuality, refinementPasses,
                   retval, events, failure>>
    /\ inFlight' = inFlight - 1
    /\ InvocationStep

\* The quality-0.1 blob arrives and is taken whatever its size.
Fallback ==
    /\ pc = "fallback"
    /\ \E blob \in Assemble(FloorQuality) :
          /\ Called(pc, blob)
          /\ bestBlob' = blob
          /\ finalBlob' = blob
    /\ finalQuality' = FloorQuality
    /\ pc' = "finish"
    /\ UNCHANGED <<state, progress, result, error, args, renderVars, minQuality,
                   maxQuality, bestQuality, attempt, testQuality, refinementPasses,
                   retval, events, failure>>
    /\ inFlight' = inFlight - 1
    /\ InvocationStep

\* SelectBest without the `if (!bestBlob)` before it: a search that found
\* nothing hands its null on.
SelectBestUnguarded ==
    /\ pc = "selected"
    /\ finalBlob' = bestBlob
    /\ pc' = "finish"
    /\ UNCHANGED <<state, progress, result, error, args, renderVars, minQuality,
                   maxQuality, bestBlob, bestQuality, finalQuality, attempt,
                   testQuality, refinementPasses, retval, histVars>>
    /\ UNCHANGED inFlight
    /\ InvocationStep

\* finalBlob = bestBlob when a blob fit.
SelectBest ==
    /\ pc = "selected"
    /\ bestBlob # NoBlob
    /\ finalBlob' = bestBlob
    /\ pc' = "finish"
    /\ UNCHANGED <<state, progress, result, error, args, renderVars, minQuality,
                   maxQuality, bestBlob, bestQuality, finalQuality, attempt,
                   testQuality, refinementPasses, retval, histVars>>
    /\ UNCHANGED inFlight
    /\ InvocationStep

\* ------------------------------------------------ compressPDF, direct mode
\* else: "Generating compressed PDF..." and the call
\* generatePDFFromCanvases(pages, settings.quality).
DirectStart ==
    /\ pc = "rendered"
    /\ args.settings.targetSizeMB = Undefined
    /\ finalQuality' = args.settings.quality
    /\ Emit(Ev("generating", totalPages, totalPages, Undefined, "generate"))
    /\ pc' = "direct"
    /\ UNCHANGED <<state, result, error, args, renderVars, minQuality, maxQuality,
                   bestBlob, bestQuality, finalBlob, attempt, testQuality,
                   refinementPasses, retval, calls, failure>>
    /\ inFlight' = inFlight + 1
    /\ InvocationStep

Direct ==
    /\ pc = "direct"
    /\ \E blob \in Assemble(args.settings.quality) :
          /\ Called(pc, blob)
          /\ finalBlob' = blob
    /\ pc' = "finish"
    /\ UNCHANGED <<state, progress, result, error, args, renderVars, minQuality,
                   maxQuality, bestBlob, bestQuality, finalQuality, attempt,
                   testQuality, refinementPasses, retval, events, failure>>
    /\ inFlight' = inFlight - 1
    /\ InvocationStep

\* ------------------------------------------------------ compressPDF, end
\* ResultOf with finalQuality filled in whatever the mode.
ResultOfAlwaysQuality(blob, quality) ==
    [blob |-> blob,
     originalSize |-> args.file.size,
     compressedSize |-> blob.size,
     pageCount |-> totalPages,
     finalQuality |-> quality]

\* The object compressPDF returns (duration left out).
ResultOf(blob, quality) ==
    [blob |-> blob,
     originalSize |-> args.file.size,
     compressedSize |-> blob.size,
     pageCount |-> totalPages,
     finalQuality |-> IF args.settings.targetSizeMB # Undefined THEN quality
                      ELSE Undefined]

\* "Compression complete!" and the return.
Complete ==
    /\ pc = "finish"
    /\ Emit(Ev("complete", totalPages, totalPages, Undefined, "complete"))
    /\ retval' = ResultOf(finalBlob, finalQuality)
    /\ pc' = "returned"
    /\ UNCHANGED <<state, result, error, args, renderVars, searchVars, calls, failure>>
    /\ UNCHANGED inFlight
    /\ InvocationStep

\* handleCompress after its await: setResult, setState("complete").
handleCompressResolved ==
    /\ pc = "returned"
    /\ result' = retval
    /\ state' = "complete"
    /\ pc' = "idle"
    /\ UNCHANGED <<progress, error, args, renderVars, searchVars, retval, histVars>>
    /\ UNCHANGED inFlight
    /\ InvocationStep

\* err instanceof Error ? err.message : "Compression failed. Please try again."
\* The message of an Error names the call that threw it.
ErrorMessage(err) ==
    IF err.isError THEN err.site ELSE "Compression failed. Please try again."

\* handleCompress, catch: setError, setState("error").
handleCompressRejected ==
    /\ pc = "thrown"
    /\ error' = ErrorMessage(failure)
    /\ state' = "error"
    /\ pc' = "idle"
    /\ UNCHANGED <<progress, result, args, renderVars, searchVars, retval, histVars>>
    /\ UNCHANGED inFlight
    /\ InvocationStep

\* ------------------------------------------------------- specifications
CompressNext ==
    \/ LoadPDF \/ OpenDocument \/ RenderPage \/ RasterizerFails
    \/ BeginSearch \/ ProbeStart \/ Probe
    \/ BisectAnnounce \/ BisectStart \/ Bisect
    \/ RefineAnnounce \/ RefineStart \/ Refine \/ RefineExit
    \/ FallbackStart \/ Fallback \/ SelectBest
    \/ DirectStart \/ Direct
    \/ AssemblerFails
    \/ Complete \/ handleCompressResolved \/ handleCompressRejected

PageNext ==
    \/ \E f \in PageFiles : handleFileSelect(f)
    \/ handleClear
    \/ \E m \in {"quality", "target"} : setMode(m)
    \/ \E s \in TargetInputs : handleTargetSizeInput(s)
    \/ \E v \in SliderValues : handleQualityChange(v)
    \/ \E i \in DpiIndexes : handleDpiChange(i)
    \/ handleCompress

\* The page with its user: every handler, every step of compressPDF.
Next == PageNext \/ CompressNext
Spec == Init /\ [][Next]_vars

\* compressPDF on its own: the state right after handleCompress has called
\* it, for every document, mode and setting of the bounded sets below; the
\* documents assemble to any sizes ("any") or to any sizes that grow with
\* the quality ("monotone").
SearchFiles ==
    {[pages |-> n, size |-> 3 * MB, kind |-> k, knee |-> 0] :
        n \in 1..MaxPages, k \in {"any", "monotone"}}
SearchTargetSizes == {1, 2}

SearchInit ==
    \E f \in SearchFiles, m \in {"quality", "target"}, ts \in SearchTargetSizes,
       v \in SliderValues, di \in DpiIndexes :
        /\ file = f
        /\ mode = m
        /\ settings = [quality |-> (v * QScale) \div 100, dpi |-> DPI_VALUES[di + 1],
                       targetSizeMB |-> Undefined]
        /\ targetSize = ts
        /\ dpiIndex = di
        /\ state = "processing"
        /\ progress = LoadingLibraries
        /\ result = NoResult
        /\ error = NoError
        /\ pc = "import"
        /\ args = [file |-> f, settings |-> CompressionSettingsOf(settings, di, m, ts)]
        /\ totalPages = 0 /\ pageNum = 0 /\ renders = <<>>
        /\ inFlight = 1
        /\ minQuality = 0 /\ maxQuality = 0
        /\ bestBlob = NoBlob /\ bestQuality = 0
        /\ finalQuality = 0 /\ finalBlob = NoBlob
        /\ attempt = 0 /\ testQuality = 0 /\ refinementPasses = 0
        /\ retval = NoResult
        /\ calls = <<>> /\ events = <<LoadingLibraries>> /\ failure = NoFailure

SearchNext == CompressNext
SearchSpec == SearchInit /\ [][SearchNext]_vars

\* The event loop runs every continuation that is ready, and every promise
\* compressPDF awaits settles.
FairSearchSpec == SearchSpec /\ WF_vars(SearchNext)

\* ================================================================ claims
\* The invocation runs in target-size mode.
TargetMode == args.settings.targetSizeMB # 0
\* compressPDF has returned (the result is in retval).
Returned == retval # NoResult
\* The calls made by the statement at `site`.
CallsAt(site) == {i \in 1..Len(calls) : calls[i].site = site}
SearchSites == {"probe", "bisect", "refine"}
\* The calls of the probe, the bisection and the refinement.
SearchCalls == {i \in 1..Len(calls) : calls[i].site \in SearchSites}
\* The call returned a blob within the target.
FitCall(i) == calls[i].blob # NoBlob /\ calls[i].blob.size <= targetBytes

\* C1: in target-size mode, once the blob assembled at quality 1.0 has a
\* size <= targetBytes (equality included), that call stays the only
\* assembler call of the invocation, and the invocation returns that blob
\* with finalQuality = 1.0.
CeilingShortCircuit ==
    (TargetMode /\ calls # <<>> /\ FitCall(1))
        => /\ Len(calls) = 1
           /\ calls[1].blob.quality = QScale
           /\ failure = NoFailure
           /\ Returned => /\ retval.blob = calls[1].blob
                          /\ retval.finalQuality = QScale

\* A returned invocation whose quality-1.0 blob has exactly targetBytes.
CeilingShortCircuitWitness ==
    /\ TargetMode /\ Returned
    /\ calls[1].blob.size = targetBytes
    /\ retval.finalQuality = QScale

\* C2: whenever a target-size invocation returns finalQuality > 0.1, the
\* blob it returns has a size <= targetBytes.
FitInvariant ==
    (TargetMode /\ Returned /\ retval.finalQuality > QScale \div 10)
        => retval.blob.size <= targetBytes

\* A return from the middle of the bracket with a blob of exactly targetBytes.
FitInvariantWitness ==
    /\ TargetMode /\ Returned
    /\ retval.finalQuality > QScale \div 10
    /\ retval.finalQuality < QScale
    /\ retval.blob.size = targetBytes

\* C3: every target-size invocation ends; when no call of the rasterizer or
\* the assembler failed it ends with the page in state "complete" holding a
\* non-null blob, whether or not any quality met the target.
BestEffort ==
    (TargetMode /\ pc # "idle")
        ~> (/\ pc = "idle"
            /\ failure = NoFailure
                 => /\ state = "complete"
                    /\ error = NoError
                    /\ result.blob # NoBlob)

\* An invocation that completed with a blob larger than the target.
BestEffortWitness ==
    /\ TargetMode /\ pc = "idle" /\ state = "complete"
    /\ result.blob # NoBlob
    /\ result.blob.size > targetBytes

\* C4: a target-size invocation makes at most 1 probe call, 6 bisection
\* calls and 4 refinement calls, 11 in all, and at most 1 fallback call.
BoundedCallCount ==
    TargetMode
        => /\ Cardinality(CallsAt("probe")) <= 1
           /\ Cardinality(CallsAt("bisect")) <= 6
           /\ Cardinality(CallsAt("refine")) <= 4
           /\ Cardinality(SearchCalls) <= 11
           /\ Cardinality(CallsAt("fallback")) <= 1
           /\ Len(calls) <= 12
           /\ CallsAt("direct") = {}

\* A returned invocation that ran the whole bisection and refined.
BoundedCallCountWitness ==
    /\ TargetMode /\ Returned
    /\ Cardinality(CallsAt("bisect")) = 6
    /\ Cardinality(CallsAt("refine")) >= 2

\* C5: when neither the probe nor any bisection or refinement candidate fits
\* the target, a returned invocation has made exactly one more call, at
\* quality 0.1, and returns that blob with finalQuality = 0.1 whatever its
\* size.
FallbackRule ==
    (TargetMode /\ Returned /\ \A i \in SearchCalls : ~FitCall(i))
        => /\ CallsAt("fallback") = {Len(calls)}
           /\ Len(calls) = Cardinality(SearchCalls) + 1
           /\ calls[Len(calls)].blob.quality = QScale \div 10
           /\ retval.blob = calls[Len(calls)].blob
           /\ retval.compressedSize = calls[Len(calls)].blob.size
           /\ retval.finalQuality = QScale \div 10

\* A fallback return whose blob exceeds the target.
FallbackRuleWitness ==
    /\ TargetMode /\ Returned
    /\ \A i \in SearchCalls : ~FitCall(i)
    /\ retval.finalQuality = QScale \div 10
    /\ retval.blob.size > targetBytes

\* The document of the invocation assembles to sizes that do not decrease
\* as the quality grows.
Monotone == args.file.kind = "monotone"
\* The invocation returned through the fallback call.
ViaFallback == TargetMode /\ Returned /\ CallsAt("fallback") # {}
\* 0.9 / 64, the width of the bracket after six bisection passes.
BisectionWidth == (QScale - QScale \div 10) \div 64
\* The qualities 0.1 + k * 0.9 / 256: every quality a run tests is one of
\* them, so a quality between two of them is bound by the same tested
\* qualities as the one below it.
QualityGrid == {QScale \div 10 + k * (BisectionWidth \div 4) : k \in 0..256}
\* Every size the assembler of this invocation can still give quality q
\* exceeds the target.
MustExceed(q) ==
    /\ AssembleSizes(q) # {}
    /\ \A sz \in AssembleSizes(q) : sz > targetBytes

FitCalls == {i \in 1..Len(calls) : FitCall(i)}
\* The highest quality among the calls in S.
MaxQualityOf(S) ==
    CHOOSE q \in {calls[i].blob.quality : i \in S} :
        \A i \in S : calls[i].blob.quality <= q

Convergence ==
    (/\ Monotone /\ TargetMode /\ Returned
     /\ ~FitCall(1)
     /\ \E i \in CallsAt("bisect") : FitCall(i))
        => /\ retval.blob.quality = retval.finalQuality
           /\ retval.blob.size <= targetBytes
           /\ \A q \in QualityGrid :
                 q >= retval.finalQuality + BisectionWidth => MustExceed(q)
           /\ Len(calls) <= 11

\* A monotone run that returns a quality from the middle of the bracket.
ConvergenceWitness ==
    /\ Monotone /\ TargetMode /\ Returned
    /\ ~FitCall(1)
    /\ \E i \in CallsAt("bisect") : FitCall(i)
    /\ \E i \in CallsAt("bisect") : ~FitCall(i)
    /\ \E i \in CallsAt("refine") : FitCall(i)
    /\ retval.finalQuality + BisectionWidth < QScale

\* The place of a progress call in the phase order.
PhaseRank(site) ==
    CASE site = "load" -> 0
      [] site = "render" -> 1
      [] site = "announce" -> 2
      [] site = "probe" -> 3
      [] site = "bisect" -> 4
      [] site = "refine" -> 5
      [] site = "fallback" -> 6
      [] site = "generate" -> 7
      [] site = "complete" -> 8
\* The progress calls made by the statement at `site`.
EventsAt(site) == {i \in 1..Len(events) : events[i].site = site}

\* C9: the progress calls of one invocation come in the order probe,
\* bisection (at most 6), refinement (at most 4), fallback: no call of an
\* earlier phase follows a call of a later phase.
ProgressOrdering ==
    /\ \A i, j \in 1..Len(events) :
          i < j => PhaseRank(events[i].site) <= PhaseRank(events[j].site)
    /\ Cardinality(EventsAt("probe")) <= 1
    /\ Cardinality(EventsAt("bisect")) <= 6
    /\ Cardinality(EventsAt("refine")) <= 4
    /\ Cardinality(EventsAt("fallback")) <= 1

\* A returned invocation whose progress calls went through probe, six
\* bisection passes and refinement.
ProgressOrderingWitness ==
    /\ TargetMode /\ Returned
    /\ EventsAt("probe") # {}
    /\ Cardinality(EventsAt("bisect")) = 6
    /\ EventsAt("refine") # {}

\* A progress call with stage "complete" was made.
CompleteEmitted == \E i \in 1..Len(events) : events[i].stage = "complete"

\* C10: when the rasterizer or an assembler call fails, compressPDF throws
\* what the call threw: the failing call is the last assembler call, no
\* "complete" event is emitted, nothing is returned, and the page's catch
\* puts it in state "error" with the error's message and result null.
ErrorPropagation ==
    /\ [](failure # NoFailure
            => /\ pc \in {"thrown", "idle"}
               /\ retval = NoResult
               /\ result = NoResult
               /\ ~CompleteEmitted
               /\ \A i \in 1..Len(calls) : calls[i].blob = NoBlob => i = Len(calls)
               /\ failure.site \in {"import", "getDocument", "renderPage"}
                    => calls = <<>>
               /\ failure.site \notin {"import", "getDocument", "renderPage"}
                    => /\ calls # <<>>
                       /\ calls[Len(calls)] = [site |-> failure.site, blob |-> NoBlob])
    /\ [][(failure # NoFailure /\ failure' # NoFailure)
            => /\ failure' = failure
               /\ calls' = calls
               /\ events' = events]_vars
    /\ [][pc = "thrown"
            => /\ state' = "error"
               /\ result' = NoResult
               /\ error' = IF failure.isError THEN failure.site
                           ELSE "Compression failed. Please try again."
               /\ pc' = "idle"]_vars

\* The page in state "error" after a refinement call failed while a fitting
\* blob was at hand.
ErrorPropagationWitness ==
    /\ state = "error" /\ result = NoResult /\ error # NoError
    /\ failure.site = "refine"
    /\ bestBlob # NoBlob
\* C11: Direct mode.  An invocation without a target size does not search:
\* it makes at most one call of generatePDFFromCanvases, at
\* settings.quality, announces no "optimizing" step and leaves the search
\* bracket alone; when it returns, it has made exactly that one call and
\* returns its blob.  finalQuality is in the result exactly when a target
\* size was given.
DirectMode ==
    /\ ~TargetMode =>
          /\ Len(calls) <= 1
          /\ \A i \in 1..Len(calls) :
                /\ calls[i].site = "direct"
                /\ calls[i].blob # NoBlob =>
                      calls[i].blob.quality = args.settings.quality
          /\ \A i \in 1..Len(events) : events[i].stage # "optimizing"
          /\ minQuality = 0 /\ maxQuality = 0 /\ bestBlob = NoBlob
          /\ Returned =>
                /\ Len(calls) = 1
                /\ retval.blob = calls[1].blob
                /\ retval.compressedSize = calls[1].blob.size
    /\ Returned => (retval.finalQuality # Undefined <=> TargetMode)

DirectModeWitness ==
    /\ ~TargetMode
    /\ Returned
    /\ Len(calls) = 1
    /\ calls[1].blob.quality = (75 * QScale) \div 100
    /\ retval.blob = calls[1].blob
    /\ retval.finalQuality = Undefined

\* The positions inside renderPagesToCanvases.
Rasterizing == pc \in {"import", "getDocument", "renderPage"}

\* C12: Rasterize once.  In every invocation, with or without a target
\* size, page.render is called on pages 1, 2, ... in order, each once; when
\* the invocation has left renderPagesToCanvases without a failure, and so
\* before any call of generatePDFFromCanvases is made, every page of the
\* document has been rendered; and from then on no step renders a page.
RasterizeOnce ==
    /\ [](/\ \A i \in 1..Len(renders) : renders[i] = i
          /\ Len(renders) <= args.file.pages
          /\ (Rasterizing \/ failure.site \in {"import", "getDocument", "renderPage"}) =>
                calls = <<>> /\ pc \notin {"probe", "bisect", "refine", "fallback", "direct"}
          /\ (calls # <<>> \/ pc \in {"probe", "bisect", "refine", "fallback", "direct"}) =>
                renders = [i \in 1..args.file.pages |-> i])
    /\ [][~Rasterizing => renders' = renders]_vars

RasterizeOnceWitness ==
    /\ Returned
    /\ Len(calls) > 1
    /\ renders = <<1, 2>>
    /\ args.file.pages = 2

\* The positions at which a call of generatePDFFromCanvases is awaited.
Assembling == pc \in {"probe", "bisect", "refine", "fallback", "direct"}
\* The positions at which the zero timeout is awaited.
Yielding == pc \in {"searchYield", "bisectYield", "refineYield"}

\* C13: Strictly sequential calls.  At most one call of the rasterizer or
\* of the assembler is in progress at any time, and it is the one the
\* invocation awaits; a call is made only when none is in progress; a call
\* of the assembler ends only as the one call in progress, so each starts
\* after the one before it has ended; and at a yield no call is in
\* progress and the step that follows changes neither the bracket, the
\* candidate, the calls made nor the result.
StrictlySequential ==
    /\ [](/\ inFlight \in {0, 1}
          /\ inFlight = 1 <=> (Rasterizing \/ Assembling)
          /\ Yielding => inFlight = 0)
    /\ [][inFlight' > inFlight => inFlight = 0 /\ inFlight' = 1]_vars
    /\ [][Len(calls') > Len(calls) =>
             /\ inFlight = 1 /\ inFlight' = 0
             /\ Len(calls') = Len(calls) + 1]_vars
    /\ [][Yielding => UNCHANGED <<searchVars, renders, calls, retval>>]_vars

StrictlySequentialWitness ==
    /\ pc = "refine"
    /\ inFlight = 1
    /\ Len(calls) = 8
    /\ \E i \in 1..Len(events) : events[i].site = "refine"

\* The target-size search has set up its bracket (lines 198-201 have run).
Searching == TargetMode /\ maxQuality # 0
\* The bisection calls that fit.
BisectFits == {i \in CallsAt("bisect") : FitCall(i)}

\* C15 as claimed: at every point of a target-size search, refinement and
\* what follows it included, minQuality is the quality of the best candidate,
\* or the floor 0.1 while there is none.
MinQualityIsBestQuality ==
    Searching =>
        minQuality = IF bestBlob # NoBlob THEN bestBlob.quality ELSE FloorQuality

\* C15, amended: at every point of a target-size search minQuality is the
\* highest quality that fit in a bisection pass, or the floor 0.1 when none
\* has; it never exceeds the best quality, and it equals the best quality
\* (which is the quality of the best candidate, or the floor while there is
\* none) as long as neither the quality-1.0 probe nor a refinement pass has
\* fit.
MinQualityTracksBisection ==
    Searching =>
        /\ minQuality = IF BisectFits = {} THEN FloorQuality
                        ELSE MaxQualityOf(BisectFits)
        /\ minQuality <= bestQuality
        /\ bestQuality = IF bestBlob # NoBlob THEN bestBlob.quality ELSE FloorQuality
        /\ (\A i \in CallsAt("probe") \cup CallsAt("refine") : ~FitCall(i)) =>
              minQuality = bestQuality

MinQualityTracksBisectionWitness ==
    /\ Searching
    /\ pc = "refineLoop"
    /\ minQuality > FloorQuality
    /\ bestBlob.quality > minQuality
    /\ \E i \in CallsAt("refine") : FitCall(i) /\ calls[i].blob = bestBlob

\* C16 as claimed: in every reachable state of a target-size invocation a
\* recorded best candidate has a blob of size <= targetBytes.
BestCandidateFits ==
    (TargetMode /\ bestBlob # NoBlob) => bestBlob.size <= targetBytes

\* C16, amended: in every reachable state of a target-size invocation in
\* which the fallback call has not returned, a recorded best candidate is
\* the blob of a probe, bisection or refinement call and its size is
\* <= targetBytes; once the fallback call has returned, bestBlob holds its
\* quality-0.1 blob, of whatever size, and no search call had fit.
BestCandidateFitsInSearch ==
    (TargetMode /\ bestBlob # NoBlob) =>
        IF \A i \in CallsAt("fallback") : calls[i].blob = NoBlob
        THEN /\ bestBlob.size <= targetBytes
             /\ \E i \in SearchCalls : calls[i].blob = bestBlob
        ELSE /\ \E i \in CallsAt("fallback") : calls[i].blob = bestBlob
             /\ bestBlob.quality = FloorQuality
             /\ \A i \in SearchCalls : ~FitCall(i)

BestCandidateFitsInSearchWitness ==
    /\ TargetMode
    /\ pc = "refineLoop"
    /\ bestBlob # NoBlob
    /\ bestBlob.size = targetBytes
    /\ \E i \in CallsAt("refine") : ~FitCall(i)

\* The search calls that returned a blob over the target.
MissCalls == {i \in SearchCalls : calls[i].blob # NoBlob /\ ~FitCall(i)}

\* C17: at every point of a target-size search, the bisection and the
\* refinement included, maxQuality is the initial ceiling 1.0 or the quality
\* of a probe, bisection or refinement call of this invocation whose blob
\* was larger than targetBytes; inside the bisection and the refinement the
\* ceiling 1.0 itself is such a quality.
MaxQualityIsKnownMiss ==
    Searching =>
        /\ maxQuality = CeilQuality
              \/ \E i \in MissCalls : calls[i].blob.quality = maxQuality
        /\ pc \in {"bisectLoop", "bisectYield", "bisect",
                   "refineLoop", "refineYield", "refine"} =>
              \E i \in MissCalls : calls[i].blob.quality = maxQuality

MaxQualityIsKnownMissWitness ==
    /\ Searching
    /\ pc = "refineYield"
    /\ maxQuality < CeilQuality
    /\ \E i \in CallsAt("refine") :
          /\ ~FitCall(i)
          /\ calls[i].blob.quality = maxQuality
    /\ \E i \in CallsAt("bisect") : FitCall(i)

\* C18: Bracket invariant.  In every reachable state of a target-size search
\* 0.1 <= minQuality <= maxQuality <= 1.0, and the best quality lies between
\* the two; from one step to the next neither minQuality nor the best
\* quality decreases and maxQuality does not increase.
BracketInvariant ==
    /\ [](Searching =>
             /\ FloorQuality <= minQuality
             /\ minQuality <= bestQuality
             /\ bestQuality <= maxQuality
             /\ maxQuality <= CeilQuality)
    /\ [][Searching =>
             /\ minQuality' >= minQuality
             /\ bestQuality' >= bestQuality
             /\ maxQuality' <= maxQuality]_vars

BracketInvariantWitness ==
    /\ Searching
    /\ pc = "refineLoop"
    /\ FloorQuality < minQuality
    /\ minQuality < bestQuality
    /\ bestQuality < maxQuality
    /\ maxQuality < CeilQuality
    /\ \E i \in CallsAt("refine") : ~FitCall(i)

\* The positions of the bisection loop.
Bisecting == pc \in {"bisectLoop", "bisectYield", "bisect"}
\* The quality-1.0 probe returned a blob over the target and the invocation
\* has left the bisection loop without a failed call.
PastBisection ==
    /\ \E i \in CallsAt("probe") : i \in MissCalls
    /\ pc \in {"refineLoop", "refineYield", "refine", "selected", "fallback",
               "finish", "returned"}

\* C19: Bisection phase.  When the quality-1.0 probe does not fit, the
\* bisection starts from the bracket [0.1, 1.0]; each pass tests the
\* midpoint (min + max) / 2 of the bracket and sets min to it when the blob
\* fits and max to it otherwise; after k passes max - min = 0.9 / 2^k; an
\* invocation that leaves the loop has made exactly 6 passes and holds a
\* bracket 0.9/64 wide when the refinement begins.
BisectionPhase ==
    /\ [](TargetMode /\ Bisecting =>
             LET k == Cardinality(CallsAt("bisect")) IN
                /\ k = attempt - 1
                /\ k < maxAttempts
                /\ (maxQuality - minQuality) * 2^k = CeilQuality - FloorQuality
                /\ k = 0 => minQuality = FloorQuality /\ maxQuality = CeilQuality)
    /\ [](TargetMode /\ PastBisection =>
             /\ Cardinality(CallsAt("bisect")) = 6
             /\ CallsAt("refine") = {} /\ pc = "refineLoop" =>
                   (maxQuality - minQuality) * 64 = CeilQuality - FloorQuality)
    /\ [][TargetMode /\ pc = "bisect" /\ Len(calls') > Len(calls)
             /\ calls'[Len(calls')].blob # NoBlob =>
             LET blob == calls'[Len(calls')].blob IN
                /\ 2 * blob.quality = minQuality + maxQuality
                /\ IF blob.size <= targetBytes
                   THEN minQuality' = blob.quality /\ maxQuality' = maxQuality
                   ELSE maxQuality' = blob.quality /\ minQuality' = minQuality]_vars

BisectionPhaseWitness ==
    /\ TargetMode
    /\ PastBisection
    /\ pc = "refineLoop"
    /\ CallsAt("refine") = {}
    /\ Cardinality(CallsAt("bisect")) = 6
    /\ maxQuality - minQuality = BisectionWidth
    /\ \E i \in CallsAt("bisect") : FitCall(i)
    /\ \E i \in CallsAt("bisect") : ~FitCall(i)

\* The positions of a refinement pass past the loop condition.
Refining == pc \in {"refineYield", "refine"}

\* C20: Refinement phase.  A refinement pass is made only when a bisection
\* pass recorded a fitting candidate; there are at most 4 passes; a pass is
\* entered only in a state where maxQuality - bestQuality is not below
\* 0.005, and once the gap is below 0.005 the loop is left without another
\* call; each pass tests the midpoint of bestQuality and maxQuality, takes
\* the blob as the candidate when it fits and lowers maxQuality to the
\* tested quality otherwise.
RefinementPhase ==
    /\ [](TargetMode =>
             /\ (Refining \/ CallsAt("refine") # {}) =>
                   \E i \in CallsAt("bisect") : FitCall(i)
             /\ Cardinality(CallsAt("refine")) <= 4
             /\ refinementPasses <= 4
             /\ Refining =>
                   /\ maxQuality - bestQuality >= RefineGap
                   /\ 2 * testQuality = bestQuality + maxQuality)
    /\ [][TargetMode /\ pc = "refineLoop" /\ maxQuality - bestQuality < RefineGap =>
             pc' = "selected" /\ calls' = calls]_vars
    /\ [][TargetMode /\ pc = "refine" /\ Len(calls') > Len(calls)
             /\ calls'[Len(calls')].blob # NoBlob =>
             LET blob == calls'[Len(calls')].blob IN
                /\ blob.quality = testQuality
                /\ IF blob.size <= targetBytes
                   THEN /\ bestBlob' = blob
                        /\ bestQuality' = blob.quality
                        /\ maxQuality' = maxQuality
                   ELSE /\ maxQuality' = blob.quality
                        /\ bestBlob' = bestBlob
                        /\ bestQuality' = bestQuality]_vars

RefinementPhaseWitness ==
    /\ TargetMode
    /\ pc = "selected"
    /\ Cardinality(CallsAt("refine")) = 2
    /\ \E i \in CallsAt("refine") : FitCall(i)
    /\ \E i \in CallsAt("refine") : ~FitCall(i)
    /\ maxQuality - bestQuality < RefineGap

\* The statements that call generatePDFFromCanvases.
CallSites == {"probe", "bisect", "refine", "fallback", "direct"}
\* The onProgress call that announces the call made at `site`.
EventSiteOf(site) == IF site = "direct" THEN "generate" ELSE site
\* The call made at `site` is announced and has not returned.
Announced(site) ==
    CASE site = "bisect" -> pc \in {"bisectYield", "bisect"}
      [] site = "refine" -> pc \in {"refineYield", "refine"}
      [] OTHER -> pc = site
\* Every call of generatePDFFromCanvases has its own onProgress call before
\* it: as many announcements as calls at each statement, one more while a
\* call is announced and not back.
EachCallAnnounced ==
    \A site \in CallSites :
        Cardinality(EventsAt(EventSiteOf(site))) =
            Cardinality(CallsAt(site)) + (IF Announced(site) THEN 1 ELSE 0)

\* C21 as claimed: every call of the assembler has an onProgress call of
\* its own before it, and that onProgress call carries an attempt index.
ProgressCarriesAttempt ==
    /\ EachCallAnnounced
    /\ \A i \in 1..Len(events) :
          events[i].site \in {EventSiteOf(site) : site \in CallSites} =>
              events[i].attempt # Undefined

\* C21, amended: every call of the assembler (probe, bisection, refinement,
\* fallback, direct) has an onProgress call of its own before it, the last
\* onProgress call when the assembler call returns, with no other
\* assembler call in between.  The stage it carries is "optimizing" in
\* target-size mode and "generating" in direct mode; the attempt it carries
\* is 1 for the probe and k for the k-th bisection pass, and it carries
\* none for a refinement pass, the fallback and the direct call.
ProgressBeforeCall ==
    /\ [](/\ EachCallAnnounced
          /\ \A i \in 1..Len(events) :
                LET e == events[i] IN
                   /\ e.site = "probe" => e.stage = "optimizing" /\ e.attempt = 1
                   /\ e.site = "bisect" =>
                         /\ e.stage = "optimizing"
                         /\ e.attempt = Cardinality({j \in EventsAt("bisect") : j <= i})
                   /\ e.site \in {"refine", "fallback"} =>
                         e.stage = "optimizing" /\ e.attempt = Undefined
                   /\ e.site = "generate" =>
                         e.stage = "generating" /\ e.attempt = Undefined)
    /\ [][Len(calls') > Len(calls) =>
             /\ Len(calls') = Len(calls) + 1
             /\ events' = events
             /\ events[Len(events)].site = EventSiteOf(calls'[Len(calls')].site)]_vars

ProgressBeforeCallWitness ==
    /\ Returned
    /\ Cardinality(CallsAt("bisect")) = 6
    /\ Cardinality(CallsAt("refine")) = 2
    /\ Cardinality(EventsAt("refine")) = 2
    /\ \E i \in EventsAt("bisect") : events[i].attempt = 6
    /\ \A i \in EventsAt("refine") : events[i].attempt = Undefined

\* Math.round(x / y * 100) for integers x >= 0, y > 0
RoundPercent(x, y) == (200 * x + y) \div (2 * y)

\* The percentage the page shows for the progress value p.
PercentOf(p) ==
    IF p.stage = "optimizing" THEN 100
    ELSE RoundPercent(p.currentPage, Max(p.totalPages, 1))

\* progressPercent
progressPercent == IF progress = NoProgress THEN 0 ELSE PercentOf(progress)

\* C22: Monotonic progress indicator.  Over the onProgress calls of one
\* invocation (loading, rendering page 1..n, optimizing or generating,
\* complete) the percentage the page derives from them never decreases;
\* it starts at 0, is 100 from the last page on, and while the page is
\* processing it shows the percentage of the latest call.
MonotonicProgress ==
    /\ \A i, j \in 1..Len(events) :
          i <= j => PercentOf(events[i]) <= PercentOf(events[j])
    /\ \A i \in 1..Len(events) :
          /\ events[i].stage = "loading" => PercentOf(events[i]) = 0
          /\ events[i].stage \in {"optimizing", "generating", "complete"} =>
                PercentOf(events[i]) = 100
    /\ state = "processing" =>
          /\ events # <<>>
          /\ progressPercent = PercentOf(events[Len(events)])

MonotonicProgressWitness ==
    /\ state = "complete"
    /\ progressPercent = 100
    /\ \E i \in 1..Len(events) : PercentOf(events[i]) = 0
    /\ \E i \in 1..Len(events) : PercentOf(events[i]) = 50
    /\ \E i \in 1..Len(events) : events[i].stage = "optimizing"
    /\ events[Len(events)].stage = "complete"

\* C23: whenever the refinement loop is entered with a candidate it makes
\* exactly 2 passes: the gap maxQuality - bestQuality is 0.9/64 on entry and
\* halves with each pass, and 0.9/256 is the first below 0.005.  So a
\* target-size invocation that returns has made exactly 1 call (the ceiling
\* fits), 8 calls (fallback) or 9 calls (refined), and neither the cap of
\* 4 passes nor a total of 11 calls is ever reached.
ExactlyTwoRefinements ==
    TargetMode =>
        /\ refinementPasses <= 2
        /\ Cardinality(CallsAt("refine")) <= 2
        /\ Len(calls) <= 9
        /\ (pc = "refineLoop" /\ bestBlob # NoBlob) =>
              /\ (maxQuality - bestQuality) * 2^refinementPasses = BisectionWidth
              /\ refinementPasses = Cardinality(CallsAt("refine"))
        /\ (BisectFits # {} /\ pc \in {"selected", "finish", "returned"}) =>
              /\ Cardinality(CallsAt("refine")) = 2
              /\ (maxQuality - bestQuality) * 4 = BisectionWidth
        /\ Returned =>
              /\ Len(calls) \in {1, 8, 9}
              /\ Len(calls) = 1 <=> FitCall(1)
              /\ Len(calls) = 8 <=> CallsAt("fallback") # {}
              /\ Len(calls) = 9 <=> CallsAt("refine") # {}

ExactlyTwoRefinementsWitness ==
    /\ TargetMode
    /\ Returned
    /\ Len(calls) = 9
    /\ refinementPasses = 2
    /\ \A i \in CallsAt("refine") : FitCall(i)
    /\ maxQuality = CeilQuality

\* The bisection and refinement calls that returned a blob.
TrialCalls ==
    {i \in CallsAt("bisect") \cup CallsAt("refine") : calls[i].blob # NoBlob}

\* C24: in target-size mode the returned finalQuality is the floor 0.1
\* exactly when the fallback call was made, which is exactly when no probe,
\* bisection or refinement blob fit; no bisection or refinement pass tests a
\* quality below 0.1 + 0.9/64; and an invocation that makes the fallback
\* call makes no refinement pass.
FloorMeansFallback ==
    TargetMode =>
        /\ Returned =>
              /\ retval.finalQuality = FloorQuality <=> CallsAt("fallback") # {}
              /\ CallsAt("fallback") # {} <=> (\A i \in SearchCalls : ~FitCall(i))
        /\ \A i \in TrialCalls :
              calls[i].blob.quality >= FloorQuality + BisectionWidth
        /\ pc \in {"bisectYield", "bisect", "refineYield", "refine"} =>
              testQuality >= FloorQuality + BisectionWidth
        /\ (pc = "fallback" \/ CallsAt("fallback") # {}) =>
              /\ CallsAt("refine") = {}
              /\ EventsAt("refine") = {}
              /\ \A i \in SearchCalls : ~FitCall(i)

FloorMeansFallbackWitness ==
    /\ ViaFallback
    /\ retval.finalQuality = FloorQuality
    /\ retval.blob.size <= targetBytes
    /\ \E i \in CallsAt("bisect") :
          calls[i].blob.quality = FloorQuality + BisectionWidth

\* C25: Blob/quality pairing.  In every reachable state of a target-size
\* invocation the recorded best blob is a blob generatePDFFromCanvases
\* returned in this invocation for the recorded best quality; the blob the
\* invocation returns is the recorded best blob, it was assembled at the
\* returned finalQuality, and the returned compressedSize is its size.
BlobQualityPairing ==
    TargetMode =>
        /\ bestBlob # NoBlob =>
              /\ bestBlob \in Assembled
              /\ bestBlob.quality = bestQuality
        /\ Returned =>
              /\ retval.blob = bestBlob
              /\ retval.blob \in Assembled
              /\ retval.blob.quality = retval.finalQuality
              /\ retval.compressedSize = retval.blob.size

BlobQualityPairingWitness ==
    /\ TargetMode
    /\ Returned
    /\ \E i \in CallsAt("refine") :
          /\ calls[i].blob = retval.blob
          /\ calls[i].blob.quality = retval.finalQuality
    /\ \E i \in CallsAt("bisect") :
          FitCall(i) /\ calls[i].blob.size # retval.compressedSize

\* The onProgress calls with stage "complete".
CompleteEvents == {i \in 1..Len(events) : events[i].stage = "complete"}

\* C26: the "complete" progress call is made at most once in an invocation;
\* an invocation has made it exactly when it has returned, and then it is
\* the last progress call and every assembler call was made before it; an
\* invocation that failed has not made it; and after it the invocation
\* makes no assembler call and no progress call.
CompleteOnce ==
    /\ [](/\ Cardinality(CompleteEvents) <= 1
          /\ CompleteEmitted <=> Returned
          /\ Returned =>
                /\ CompleteEvents = {Len(events)}
                /\ calls # <<>>
                /\ \A i \in 1..Len(calls) : calls[i].blob # NoBlob
                /\ inFlight = 0
          /\ (failure # NoFailure \/ pc = "thrown") => ~CompleteEmitted)
    /\ [][~CompleteEmitted /\ CompleteEmitted' =>
             calls' = calls /\ pc = "finish" /\ pc' = "returned"]_vars
    /\ [][CompleteEmitted => calls' = calls /\ events' = events]_vars

CompleteOnceWitness ==
    /\ Returned
    /\ CompleteEvents = {Len(events)}
    /\ Len(calls) = 8
    /\ events[Len(events) - 1].site = "fallback"

\* C27: PDF page state machine.  After any sequence of file selections,
\* clears, compress clicks, completions and failures: in state "complete"
\* the result is set and the error is null; in state "error" the error is
\* set and the result is null; in state "processing" a file is selected and
\* result and error are both null; in state "idle" result and error are
\* null; and the page enters "complete" and "error" only from "processing".
PageStateMachine ==
    /\ [](/\ state \in {"idle", "processing", "complete", "error"}
          /\ state = "complete" => result # NoResult /\ error = NoError
          /\ state = "error" => error # NoError /\ result = NoResult
          /\ state = "processing" =>
                file # NoFile /\ result = NoResult /\ error = NoError
          /\ state = "idle" => result = NoResult /\ error = NoError)
    /\ [][(state' \in {"complete", "error"} /\ state' # state) =>
             state = "processing"]_vars

PageStateMachineWitness ==
    /\ state = "complete"
    /\ result # NoResult
    /\ result.finalQuality = FloorQuality
    /\ result.blob.size > MB
    /\ error = NoError
    /\ file # NoFile

\* The settings handleCompress would pass to compressPDF now.
CurrentSettings == CompressionSettingsOf(settings, dpiIndex, mode, targetSize)

\* C28: while the page is in state "processing" no step changes the file,
\* the mode, the target size, the quality or the DPI, and none starts
\* another invocation of compressPDF: an invocation is running exactly
\* while the page is processing, at most one call of it is in flight, and
\* it runs on the file and the settings the page shows.  The result stored
\* on completion is the one that invocation returned for the file and the
\* settings selected at that moment, and it stays the result of the
\* selected file for as long as it is shown.
SingleInvocation ==
    /\ [](/\ state = "processing" <=> pc # "idle"
          /\ inFlight <= 1
          /\ state = "processing" =>
                args = [file |-> file, settings |-> CurrentSettings]
          /\ state = "complete" =>
                /\ result = retval
                /\ args.file = file
                /\ result.originalSize = file.size
                /\ result.pageCount = file.pages)
    /\ [][state = "processing" =>
             /\ UNCHANGED <<file, mode, settings, targetSize, dpiIndex, args>>
             /\ pc' # "import"]_vars
    /\ [][state = "processing" /\ state' = "complete" =>
             /\ result' = retval
             /\ args = [file |-> file', settings |-> CurrentSettings']]_vars

SingleInvocationWitness ==
    /\ state = "complete"
    /\ mode = "target"
    /\ result = retval
    /\ result.finalQuality = CeilQuality
    /\ args = [file |-> file, settings |-> CurrentSettings]
    /\ file.pages = 2

\* C29: Target size precondition.  Every text the target size input can
\* hold (empty, not a number, zero, negative, fractional, over-large) is
\* stored as an integer in 1..500, so targetSize is in 1..500 in every
\* state; an invocation started in target mode gets targetSizeMB =
\* targetSize, so targetBytes = targetSize * 1024 * 1024 > 0, it takes the
\* target-size branch and never makes the direct-mode call.
TargetSizePrecondition ==
    /\ targetSize \in 1..500
    /\ \A s \in TargetInputs : ClampTargetSize(s) \in 1..500
    /\ (state = "processing" /\ mode = "target") =>
          /\ args.settings.targetSizeMB = targetSize
          /\ TargetMode
          /\ targetBytes = targetSize * 1024 * 1024
          /\ targetBytes > 0
          /\ pc # "direct"
          /\ CallsAt("direct") = {}
          /\ EventsAt("generate") = {}
          /\ pc \notin {"import", "getDocument", "renderPage", "rendered", "thrown"} =>
                EventsAt("announce") # {}

TargetSizePreconditionWitness ==
    /\ state = "processing"
    /\ mode = "target"
    /\ targetSize = ClampTargetSize(<<"0">>)
    /\ targetBytes = MB
    /\ pc = "fallback"
    /\ Len(calls) = 7

====
